---- MODULE Spec2Model ----
(***************************************************************************)
(* A model of the recurrence evaluation engine of ical_rust: the           *)
(* DateOrDateTime value type and its calendar arithmetic, the RRule        *)
(* bounds (COUNT / UNTIL / INTERVAL), the stateful VEventIterator and the  *)
(* consumer VEvent::next_occurrence_since.                                 *)
(*                                                                         *)
(* A DateTime<Utc> is modelled as a pair (day, secs): the number of days   *)
(* since 1970-01-01 and the second of that day.  Option<T> is modelled as  *)
(* a sequence of length at most one: << >> is None and <<v>> is Some(v).   *)
(***************************************************************************)
EXTENDS Integers, Sequences, FiniteSets, TLC

----------------------------------------------------------------------------
(* Option<T> *)

None == << >>

Some(v) == <<v>>

IsSome(o) == o # << >>

Unwrap(o) == o[1]

UnwrapOr(o, d) == IF o = << >> THEN d ELSE o[1]

----------------------------------------------------------------------------
(* The proleptic Gregorian calendar of chrono's DateTime<Utc>. *)

SecsPerDay == 86400

IsLeap(y) == (y % 4 = 0) /\ ((y % 100 # 0) \/ (y % 400 = 0))

DaysInMonth(y, m) ==
    IF m = 2 THEN (IF IsLeap(y) THEN 29 ELSE 28)
    ELSE IF m \in {4, 6, 9, 11} THEN 30 ELSE 31

\* Utc.with_ymd_and_hms yields LocalResult::None for a date that does not exist
ValidYmd(y, m, d) == m \in 1..12 /\ d >= 1 /\ d <= DaysInMonth(y, m)

\* days since 1970-01-01 of the civil date y-m-d (the year taken to start in
\* March, so that the leap day is its last day)
DaysFromEra(era, yoe, doy) ==
    era * 146097 + yoe * 365 + yoe \div 4 - yoe \div 100 + doy - 719468

DaysFromMarchYear(yy, mp, d) ==
    DaysFromEra(yy \div 400, yy % 400, (153 * mp + 2) \div 5 + d - 1)

DaysFromCivil(y, m, d) ==
    DaysFromMarchYear(IF m <= 2 THEN y - 1 ELSE y, IF m > 2 THEN m - 3 ELSE m + 9, d)

\* the civil date <<y, m, d>> of a day number
CivilOfMonth(y, m, d) == <<IF m <= 2 THEN y + 1 ELSE y, m, d>>

CivilOfMp(y, doy, mp) ==
    CivilOfMonth(y, IF mp < 10 THEN mp + 3 ELSE mp - 9, doy - (153 * mp + 2) \div 5 + 1)

CivilOfDoy(y, doy) == CivilOfMp(y, doy, (5 * doy + 2) \div 153)

CivilOfYoe(era, doe, yoe) ==
    CivilOfDoy(yoe + era * 400, doe - (365 * yoe + yoe \div 4 - yoe \div 100))

CivilOfDoe(era, doe) ==
    CivilOfYoe(era, doe,
               (doe - doe \div 1460 + doe \div 36524 - doe \div 146096) \div 365)

CivilOfShifted(z) == CivilOfDoe(z \div 146097, z % 146097)

CivilFromDays(n) == CivilOfShifted(n + 719468)

\* chrono::Weekday of a day number; 1970-01-01 was a Thursday
WeekdayNames == <<"Mon", "Tue", "Wed", "Thu", "Fri", "Sat", "Sun">>

Weekdays == {WeekdayNames[k] : k \in 1..7}

WeekdayOf(n) == WeekdayNames[((n + 3) % 7) + 1]

----------------------------------------------------------------------------
(* DateOrDateTime *)

WholeDay(day, secs) == [tag |-> "WholeDay", day |-> day, secs |-> secs]

DateTime(day, secs) == [tag |-> "DateTime", day |-> day, secs |-> secs]

\* the DateTime<Utc> either variant holds, as <<day, secs>>
Instant(m) == <<m.day, m.secs>>

\* DateOrDateTime::date: the DateTime<Utc> held by either variant, time of
\* day included
Date(m) == Instant(m)

Year(m) == CivilFromDays(m.day)[1]

Month(m) == CivilFromDays(m.day)[2]

Day(m) == CivilFromDays(m.day)[3]

\* Ordering as -1, 0, 1 for Less, Equal, Greater
Cmp(a, b) == IF a < b THEN -1 ELSE IF a = b THEN 0 ELSE 1

\* Ord for DateTime<Utc>
CmpInstant(a, b) == IF a[1] # b[1] THEN Cmp(a[1], b[1]) ELSE Cmp(a[2], b[2])

\* Ord for DateOrDateTime: both operands as the DateTime<Utc> they hold
MomentCmp(a, b) == CmpInstant(Instant(a), Instant(b))

\* Add<Duration>: the variant is kept, the instant moves by d seconds
AddSecs(m, d) ==
    [tag |-> m.tag, day |-> m.day + (m.secs + d) \div SecsPerDay,
     secs |-> (m.secs + d) % SecsPerDay]

AddDays(m, n) == [tag |-> m.tag, day |-> m.day + n, secs |-> m.secs]

\* Sub for DateOrDateTime: the chrono::Duration between two values, in seconds
SubMoment(a, b) == (a.day - b.day) * SecsPerDay + (a.secs - b.secs)

----------------------------------------------------------------------------
(* Results of operations that can abort: Ok(v), or Panic for an unwrap of  *)
(* nothing, a division by zero or unimplemented!().                        *)

Ok(v) == [ok |-> TRUE, val |-> v]

Panic == [ok |-> FALSE, val |-> << >>]

----------------------------------------------------------------------------
(* DateOrDateTime: field substitution and calendar stepping *)

HmsSecs(h, mi, s) == h * 3600 + mi * 60 + s

Hour(m) == IF m.tag = "WholeDay" THEN 0 ELSE m.secs \div 3600

Minute(m) == IF m.tag = "WholeDay" THEN 0 ELSE (m.secs % 3600) \div 60

Second(m) == IF m.tag = "WholeDay" THEN 0 ELSE m.secs % 60

\* the value substitute builds once the date y-mo-d is known to exist
SubstituteYmd(m, date, hour, minute, second) ==
    IF m.tag = "WholeDay"
    THEN IF IsSome(hour) \/ IsSome(minute) \/ IsSome(second)
         THEN Ok(None)
         ELSE Ok(Some(WholeDay(date, 0)))
    ELSE Ok(Some(DateTime(date, HmsSecs(UnwrapOr(hour, m.secs \div 3600),
                                        UnwrapOr(minute, (m.secs % 3600) \div 60),
                                        UnwrapOr(second, m.secs % 60)))))

SubstituteDate(m, y, mo, d, hour, minute, second) ==
    IF ~ValidYmd(y, mo, d) THEN Panic
    ELSE SubstituteYmd(m, DaysFromCivil(y, mo, d), hour, minute, second)

SubstituteCivil(m, c, year, month, day, hour, minute, second) ==
    SubstituteDate(m, UnwrapOr(year, c[1]), UnwrapOr(month, c[2]), UnwrapOr(day, c[3]),
                   hour, minute, second)

\* DateOrDateTime::substitute; the arguments are Options.  The result is
\* Ok(Some(value)), Ok(None) for the SubstitutionError, or Panic when the
\* overridden date does not exist (the unwrap of with_ymd_and_hms).
Substitute(m, year, month, day, hour, minute, second) ==
    SubstituteCivil(m, CivilFromDays(m.day), year, month, day, hour, minute, second)

\* DateOrDateTime::substitute_time_with: a DateTime time is returned with its
\* own year, month and day
SubstituteTimeWith(self, time) ==
    IF time.tag = "WholeDay" THEN self ELSE DateTime(time.day, time.secs)

\* the first day of the month of m: substitute(None, None, Some(1), None, None,
\* None).unwrap()
MonthStart(m) == Unwrap(Substitute(m, None, None, Some(1), None, None, None).val)

\* the first day of the month after the month <<y, mo, d>> of m
NextMonthStartOf(m, c) ==
    Unwrap(SubstituteCivil(m, c,
                           Some(IF c[2] = 12 THEN c[1] + 1 ELSE c[1]),
                           Some(IF c[2] = 12 THEN 1 ELSE c[2] + 1),
                           Some(1), None, None, None).val)

NextMonthStart(m) == NextMonthStartOf(m, CivilFromDays(m.day))

RECURSIVE NextWeekdaysScan(_, _)
NextWeekdaysScan(ret, weekdays) ==
    IF WeekdayOf(ret.day) \in weekdays THEN ret
    ELSE NextWeekdaysScan(AddDays(ret, 1), weekdays)

\* next_weekdays without the first added day: the scan starts on the day itself
NextWeekdaysFromSelf(m, weekdays) == NextWeekdaysScan(m, weekdays)

\* DateOrDateTime::next_weekdays: at least one day later, then day by day
\* until the weekday is one of weekdays
NextWeekdays(m, weekdays) == NextWeekdaysScan(AddDays(m, 1), weekdays)

Abs(n) == IF n < 0 THEN -n ELSE n

\* the loop of move_by_delta; steps counts the additions of increment
RECURSIVE MoveByDeltaScan(_, _, _, _, _)
MoveByDeltaScan(current_day, current_delta, increment, weekday, steps) ==
    IF WeekdayOf(current_day.day) # weekday
    THEN MoveByDeltaScan(AddDays(current_day, increment), current_delta,
                         increment, weekday, steps + 1)
    ELSE IF current_delta = 0
    THEN [val |-> current_day, steps |-> steps]
    ELSE MoveByDeltaScan(AddDays(current_day, increment), current_delta - 1,
                         increment, weekday, steps + 1)

\* move_by_delta counting down from the ordinal itself
MoveByDeltaRunFromOrdinal(m, delta) ==
    IF delta.delta = 0 THEN Panic
    ELSE Ok(MoveByDeltaScan(IF delta.delta > 0 THEN MonthStart(m)
                            ELSE AddDays(NextMonthStart(m), -1),
                            Abs(delta.delta),
                            IF delta.delta > 0 THEN 1 ELSE -1,
                            delta.weekday, 0))

\* DateOrDateTime::move_by_delta, with the number of day-steps of its loop:
\* from month_start forward for a positive ordinal, from month_end backward
\* for a negative one; delta.delta / delta.delta.abs() divides by zero for an
\* ordinal of 0
MoveByDeltaRun(m, delta) ==
    IF delta.delta = 0 THEN Panic
    ELSE Ok(MoveByDeltaScan(IF delta.delta > 0 THEN MonthStart(m)
                            ELSE AddDays(NextMonthStart(m), -1),
                            Abs(delta.delta) - 1,
                            IF delta.delta > 0 THEN 1 ELSE -1,
                            delta.weekday, 0))

MoveByDeltaVal(r) == IF r.ok THEN Ok(r.val.val) ELSE Panic

MoveByDelta(m, delta) == MoveByDeltaVal(MoveByDeltaRun(m, delta))

\* ByDay: Simple(weekdays) or Delta(delta)
Simple(weekdays) == [kind |-> "Simple", weekdays |-> weekdays]

Delta(delta, weekday) == [kind |-> "Delta", delta |-> delta, weekday |-> weekday]

\* DateOrDateTime::next_by_day
NextByDay(m, by_day) ==
    IF by_day.kind = "Delta" THEN MoveByDelta(m, by_day)
    ELSE Ok(NextWeekdays(m, by_day.weekdays))

Max(a, b) == IF a >= b THEN a ELSE b

\* the loop of inc_month: month by month until year-month-day exists
RECURSIVE IncMonthScan(_, _, _)
IncMonthScan(year, month, day) ==
    IF ValidYmd(year, month, day) THEN DaysFromCivil(year, month, day)
    ELSE IF month + 1 > 12 THEN IncMonthScan(year + 1, 1, day)
    ELSE IncMonthScan(year, month + 1, day)

IncMonthTo(m, date) ==
    IF m.tag = "WholeDay" THEN WholeDay(date, 0) ELSE DateTime(date, m.secs)

\* inc_month on the civil date c of m: delta_final_months is month + increment
IncMonthFrom(m, c, delta_final_months) ==
    IncMonthTo(m, IncMonthScan(c[1] + delta_final_months \div 12,
                               Max(delta_final_months
                                     - (delta_final_months \div 12) * 12, 1),
                               c[3]))

IncMonthCivil(m, c, increment) == IncMonthFrom(m, c, c[2] + increment)

\* DateOrDateTime::inc_month
IncMonth(m, increment) == IncMonthCivil(m, CivilFromDays(m.day), increment)

IncYearCivil(m, c, increment) ==
    IF ~ValidYmd(c[1] + increment, c[2], c[3]) THEN Panic
    ELSE Ok(IncMonthTo(m, DaysFromCivil(c[1] + increment, c[2], c[3])))

\* DateOrDateTime::inc_year; the unwrap aborts when the day does not exist in
\* the target year (29 February)
IncYear(m, increment) == IncYearCivil(m, CivilFromDays(m.day), increment)

----------------------------------------------------------------------------
(* EventOverlap and DateOrDateTime::intersects *)

EventOverlaps == {"FinishesPast", "StartSameDayEndsSameDay", "StartsSameDayEndsFuture",
                  "StartsPastEndsSameDay", "StartsPastEndsFuture", "StartsFuture"}

\* the match on the pair of orderings; "Err" is StartDateAfterEndDate
OverlapOf(cs, ce) ==
    CASE cs = -1 /\ ce = -1 -> "FinishesPast"
      [] cs = -1 /\ ce = 0  -> "StartsPastEndsSameDay"
      [] cs = -1 /\ ce = 1  -> "StartsPastEndsFuture"
      [] cs = 0  /\ ce = -1 -> "Err"
      [] cs = 0  /\ ce = 0  -> "StartSameDayEndsSameDay"
      [] cs = 0  /\ ce = 1  -> "StartsSameDayEndsFuture"
      [] OTHER              -> "StartsFuture"

\* intersects with the endpoints compared to a DateTime self as instants, a
\* WholeDay endpoint as the midnight of its date
IntersectsAtInstant(self, dt_start, dt_end) ==
    IF self.tag = "WholeDay"
    THEN OverlapOf(CmpInstant(<<dt_start.day, 0>>, Instant(self)),
                   CmpInstant(<<dt_end.day, 0>>, Instant(self)))
    ELSE OverlapOf(CmpInstant(IF dt_start.tag = "WholeDay" THEN <<dt_start.day, 0>>
                              ELSE Instant(dt_start), Instant(self)),
                   CmpInstant(IF dt_end.tag = "WholeDay" THEN <<dt_end.day, 0>>
                              ELSE Instant(dt_end), Instant(self)))

\* self.intersects(dt_start, dt_end)
Intersects(self, dt_start, dt_end) ==
    IF self.tag = "WholeDay"
    THEN \* midnight of each endpoint's date against the DateTime self holds
         OverlapOf(CmpInstant(<<dt_start.day, 0>>, Instant(self)),
                   CmpInstant(<<dt_end.day, 0>>, Instant(self)))
    ELSE \* date_naive() of each endpoint against date_naive() of self
         OverlapOf(Cmp(dt_start.day, self.day), Cmp(dt_end.day, self.day))

----------------------------------------------------------------------------
(* RRule and its CommonOptions *)

Shapes == {"Yearly", "YearlyByMonthByMonthDay", "YearlyByMonthByDay",
           "MonthlyByMonthDay", "MonthlyByDay", "WeeklyByDay", "Weekly", "Daily"}

\* the shapes that carry a ByDay
ByDayShapes == {"YearlyByMonthByDay", "MonthlyByDay", "WeeklyByDay"}

NoDay == [kind |-> "NoDay"]

\* interval, count and until are Options
RRule(shape, day, until, interval, count) ==
    [shape |-> shape, day |-> day, until |-> until, interval |-> interval,
     count |-> count]

\* Options::is_out_of_count
IsOutOfCount(rrule, count) ==
    IF IsSome(rrule.count) THEN count >= Unwrap(rrule.count) ELSE FALSE

\* Options::is_expired
IsExpired(rrule, dt) ==
    IF IsSome(rrule.until) THEN MomentCmp(dt, Unwrap(rrule.until)) = 1 ELSE FALSE

----------------------------------------------------------------------------
(* VEvent and VEventIterator *)

VEvent(dt_start, dt_end, rrule, exdates) ==
    [dt_start |-> dt_start, dt_end |-> dt_end, rrule |-> rrule, exdates |-> exdates]

\* VEventIterator::new
NewIterator(event) == [event |-> event, last_occurrence |-> None, count |-> 0]

\* the candidate a rule shape computes from last_occurrence: Ok(moment), or
\* Panic where the arm aborts
RuleCandidate(last_occurrence, rrule) ==
    CASE rrule.shape \in {"Yearly", "YearlyByMonthByMonthDay"} ->
             IncYear(last_occurrence, 1)
      [] rrule.shape = "YearlyByMonthByDay" -> Panic
      [] rrule.shape = "MonthlyByMonthDay" ->
             Ok(IncMonth(last_occurrence, UnwrapOr(rrule.interval, 1)))
      [] rrule.shape \in {"MonthlyByDay", "WeeklyByDay"} ->
             NextByDay(IF rrule.shape = "MonthlyByDay"
                       THEN NextMonthStart(last_occurrence) ELSE last_occurrence,
                       rrule.day)
      [] OTHER ->
             Ok(AddDays(last_occurrence, IF rrule.shape = "Weekly" THEN 7 ELSE 1))

\* the iterator after an accepted candidate: self.last_occurrence = Some(next)
StoreLast(it, next_occurrence) == [it EXCEPT !.last_occurrence = Some(next_occurrence)]

\* an arm that forgets the cursor when its candidate is expired
AcceptCandidateResets(it, rrule, c) ==
    IF ~c.ok THEN [ok |-> FALSE, it |-> it, res |-> None]
    ELSE IF ~IsExpired(rrule, c.val)
    THEN [ok |-> TRUE, it |-> StoreLast(it, c.val), res |-> Some(c.val)]
    ELSE [ok |-> TRUE, it |-> [it EXCEPT !.last_occurrence = None], res |-> None]

\* what an arm does with its candidate c: kept and returned unless expired
AcceptCandidate(it, rrule, c) ==
    IF ~c.ok THEN [ok |-> FALSE, it |-> it, res |-> None]
    ELSE IF ~IsExpired(rrule, c.val)
    THEN [ok |-> TRUE, it |-> StoreLast(it, c.val), res |-> Some(c.val)]
    ELSE [ok |-> TRUE, it |-> it, res |-> None]

\* VEventIterator::get_next_occurrence_according_to_rule: the iterator left
\* behind and the returned Option; ok is FALSE when the call aborts
GetNextOccurrenceAccordingToRule(it, last_occurrence, rrule) ==
    AcceptCandidate(it, rrule, RuleCandidate(last_occurrence, rrule))

\* the while loop over the INTERVAL sub-steps; r is what the sub-step returned
RECURSIVE IterationsLoop(_, _, _, _)
IterationsStep(r, rrule, iterations) ==
    IF ~r.ok THEN r ELSE IterationsLoop(r.it, rrule, r.res, iterations - 1)

IterationsLoop(it, rrule, next_occurrence, iterations) ==
    IF iterations > 0 /\ IsSome(next_occurrence)
    THEN IterationsStep(
             GetNextOccurrenceAccordingToRule(it, Unwrap(next_occurrence), rrule),
             rrule, iterations)
    ELSE [ok |-> TRUE, it |-> it, res |-> next_occurrence]

\* the closure given to and_then
NextWithRule(it, rrule) ==
    IF IsOutOfCount(rrule, it.count) THEN [ok |-> TRUE, it |-> it, res |-> None]
    ELSE IterationsLoop(it, rrule, it.last_occurrence, UnwrapOr(rrule.interval, 1))

\* get_next_occurrence_according_to_rule_and_iterations without the arm for
\* the first call: the rule is applied to dt_start before anything is returned
FirstCallSteps(it, ev) ==
    IF ~IsSome(ev.rrule)
    THEN IF IsSome(it.last_occurrence) THEN [ok |-> TRUE, it |-> it, res |-> None]
         ELSE [ok |-> TRUE, it |-> StoreLast(it, ev.dt_start), res |-> Some(ev.dt_start)]
    ELSE NextWithRule(IF IsSome(it.last_occurrence) THEN it ELSE StoreLast(it, ev.dt_start),
                      Unwrap(ev.rrule))

\* get_next_occurrence_according_to_rule_and_iterations returning the cursor
\* again when the event has no rule
RuleAndIterationsRepeating(it, ev) ==
    IF IsSome(it.last_occurrence)
    THEN IF ~IsSome(ev.rrule) THEN [ok |-> TRUE, it |-> it, res |-> it.last_occurrence]
         ELSE NextWithRule(it, Unwrap(ev.rrule))
    ELSE [ok |-> TRUE, it |-> StoreLast(it, ev.dt_start), res |-> Some(ev.dt_start)]

\* VEventIterator::get_next_occurrence_according_to_rule_and_iterations
GetNextOccurrenceAccordingToRuleAndIterations(it, ev) ==
    IF IsSome(it.last_occurrence)
    THEN IF ~IsSome(ev.rrule) THEN [ok |-> TRUE, it |-> it, res |-> None]
         ELSE NextWithRule(it, Unwrap(ev.rrule))
    ELSE [ok |-> TRUE, it |-> StoreLast(it, ev.dt_start), res |-> Some(ev.dt_start)]

\* the closure given to exdates.iter().any in next
MatchesExdate(next_non_empty, exdate) ==
    CmpInstant(Date(next_non_empty), Date(exdate)) = 0

IsExcluded(ev, next_non_empty) ==
    \E exdate \in ev.exdates : MatchesExdate(next_non_empty, exdate)

Range(start, end) == [start |-> start, end |-> end]

\* the Range an accepted occurrence is returned as
OccurrenceRange(ev, next_non_empty) ==
    Range(next_non_empty, AddSecs(next_non_empty, SubMoment(ev.dt_end, ev.dt_start)))

\* the iterator after an accepted occurrence: self.count += 1
KeepCount(it) == [it EXCEPT !.count = it.count + 1]

\* the loop of next, entered with what the call before it returned.  seen holds
\* the (iterator, candidate) pairs the loop head has been at: the loop is
\* deterministic, so a repeated pair never leaves it
RECURSIVE NextLoop(_, _, _)
NextLoop(r, ev, seen) ==
    IF ~r.ok THEN [status |-> "panic", it |-> r.it, res |-> None]
    ELSE IF ~IsSome(r.res) THEN [status |-> "ok", it |-> r.it, res |-> None]
    ELSE IF ~IsExcluded(ev, Unwrap(r.res))
    THEN [status |-> "ok", it |-> KeepCount(r.it),
          res |-> Some(OccurrenceRange(ev, Unwrap(r.res)))]
    ELSE IF <<r.it, r.res>> \in seen
    THEN [status |-> "hang", it |-> r.it, res |-> None]
    ELSE NextLoop(GetNextOccurrenceAccordingToRuleAndIterations(r.it, ev), ev,
                  seen \cup {<<r.it, r.res>>})

\* Iterator::next for VEventIterator: status is "ok" when the call returns res,
\* "panic" when it aborts and "hang" when it never returns
IterNext(it, ev) ==
    NextLoop(GetNextOccurrenceAccordingToRuleAndIterations(it, ev), ev, {})

----------------------------------------------------------------------------
(* VEvent::next_occurrence_since *)

\* the bound on the calls of next made by one call of next_occurrence_since
MaxPulls == 5

\* the overlap computed for one occurrence: two WholeDay endpoints are handed
\* to intersects as the DateTimes at midnight of their dates
SinceOverlap(dt, occurrence) ==
    IF occurrence.start.tag = "WholeDay" /\ occurrence.end.tag = "WholeDay"
    THEN Intersects(dt, DateTime(occurrence.start.day, 0), DateTime(occurrence.end.day, 0))
    ELSE Intersects(dt, occurrence.start, occurrence.end)

\* a loop that also carries on past an occurrence that ends on the day of dt
SinceContinuesToday(event_overlap) ==
    event_overlap \in {"FinishesPast", "StartsPastEndsSameDay"}

\* the match on event_overlap: only FinishesPast carries on
SinceContinues(event_overlap) == event_overlap = "FinishesPast"

\* what a call leaves: how it ended, the occurrences its iterator returned in
\* order, and the OccurrenceResult of Ok(Some(..))
SinceResult(outcome, pulled, occurrence, event_overlap) ==
    [outcome |-> outcome, pulled |-> pulled, occurrence |-> occurrence,
     event_overlap |-> event_overlap]

\* the for loop over self.into_iter(); r is what next returned.  outcome is
\* "Some", "None" or "Err" for Ok(Some(..)), Ok(None) and Err(..), "panic" or
\* "hang" when next did not return, "open" when MaxPulls calls of next have
\* all been carried on from
RECURSIVE SinceLoop(_, _, _, _)
SinceClassified(r, ev, dt, pulled, event_overlap) ==
    IF event_overlap = "Err" THEN SinceResult("Err", pulled, None, None)
    ELSE IF ~SinceContinues(event_overlap)
    THEN SinceResult("Some", pulled, r.res, Some(event_overlap))
    ELSE IF Len(pulled) >= MaxPulls THEN SinceResult("open", pulled, None, None)
    ELSE SinceLoop(IterNext(r.it, ev), ev, dt, pulled)

SinceLoop(r, ev, dt, pulled) ==
    IF r.status # "ok" THEN SinceResult(r.status, pulled, None, None)
    ELSE IF ~IsSome(r.res) THEN SinceResult("None", pulled, None, None)
    ELSE SinceClassified(r, ev, dt, Append(pulled, Unwrap(r.res)),
                         SinceOverlap(dt, Unwrap(r.res)))

\* VEvent::next_occurrence_since(dt) on event e
NextOccurrenceSince(e, ev, dt) ==
    SinceLoop(IterNext(NewIterator(e), ev), ev, dt, << >>)

----------------------------------------------------------------------------
(* Text: a &str is the sequence of its characters *)

\* a typed error returned to the caller, and the abort that returns nothing
Err(e) == [ok |-> FALSE, val |-> <<e>>]

IsPanic(r) == ~r.ok /\ r.val = << >>

Digits == <<"0", "1", "2", "3", "4", "5", "6", "7", "8", "9">>

IsDigit(ch) == \E i \in 1..10 : Digits[i] = ch

DigitVal(ch) == (CHOOSE i \in 1..10 : Digits[i] = ch) - 1

\* str::starts_with
StartsWith(s, prefix) ==
    Len(s) >= Len(prefix) /\ SubSeq(s, 1, Len(prefix)) = prefix

\* &item[prefix.len()..]
After(s, prefix) == SubSeq(s, Len(prefix) + 1, Len(s))

\* str::split(sep): the pieces between the separators, empty ones included
RECURSIVE SplitScan(_, _, _, _, _)
SplitScan(s, sep, i, piece, pieces) ==
    IF i > Len(s) THEN Append(pieces, piece)
    ELSE IF s[i] = sep THEN SplitScan(s, sep, i + 1, << >>, Append(pieces, piece))
    ELSE SplitScan(s, sep, i + 1, Append(piece, s[i]), pieces)

Split(s, sep) == SplitScan(s, sep, 1, << >>, << >>)

\* the digits of an integer, most significant first, up to a largest value
RECURSIVE DigitsValue(_, _, _, _)
DigitsValue(s, i, acc, most) ==
    IF i > Len(s) THEN Ok(acc)
    ELSE IF ~IsDigit(s[i]) THEN Err("ParseIntError")
    ELSE IF acc > (most - DigitVal(s[i])) \div 10 THEN Err("ParseIntError")
    ELSE DigitsValue(s, i + 1, acc * 10 + DigitVal(s[i]), most)

\* str::parse for u8 and u32: an optional +, then at least one digit
ParseUnsigned(s, most) ==
    IF s = << >> THEN Err("ParseIntError")
    ELSE IF s[1] = "+"
    THEN (IF Len(s) = 1 THEN Err("ParseIntError") ELSE DigitsValue(s, 2, 0, most))
    ELSE DigitsValue(s, 1, 0, most)

Negated(r) == IF r.ok THEN Ok(-r.val) ELSE r

\* str::parse for i32: an optional + or -, then at least one digit
ParseSigned(s, most) ==
    IF s = << >> THEN Err("ParseIntError")
    ELSE IF s[1] \in {"+", "-"}
    THEN (IF Len(s) = 1 THEN Err("ParseIntError")
          ELSE IF s[1] = "-" THEN Negated(DigitsValue(s, 2, 0, most))
          ELSE DigitsValue(s, 2, 0, most))
    ELSE DigitsValue(s, 1, 0, most)

U8Max == 255

\* the integers of the model end at 2^31 - 1: a u32 text above it, and the i32
\* text -2147483648, read as out of range
U32Max == 2147483647

I32Max == 2147483647

----------------------------------------------------------------------------
(* ByDay::from_str and Delta::from_str *)

WeekdayCodes ==
    {<<<<"S", "U">>, "Sun">>, <<<<"M", "O">>, "Mon">>, <<<<"T", "U">>, "Tue">>,
     <<<<"W", "E">>, "Wed">>, <<<<"T", "H">>, "Thu">>, <<<<"F", "R">>, "Fri">>,
     <<<<"S", "A">>, "Sat">>}

\* to_chrono_weekday
ToChronoWeekday(s) ==
    IF \E c \in WeekdayCodes : c[1] = s
    THEN Ok((CHOOSE c \in WeekdayCodes : c[1] = s)[2])
    ELSE Err("InvalidWeekday")

DeltaOf(weekday, delta) ==
    IF ~weekday.ok THEN weekday
    ELSE IF ~delta.ok THEN Err("InvalidDelta")
    ELSE Ok(Delta(delta.val, weekday.val))

\* Delta::from_str: s.len() - 2 underflows for fewer than two characters
DeltaFromStr(s) ==
    IF Len(s) < 2 THEN Panic
    ELSE DeltaOf(ToChronoWeekday(SubSeq(s, Len(s) - 1, Len(s))),
                 ParseSigned(SubSeq(s, 1, Len(s) - 2), I32Max))

NonEmpty(token) == token # << >>

\* the map over the tokens collected into a Result: the first error, or the
\* weekdays
SimpleOf(weekdays) ==
    IF \E i \in DOMAIN weekdays : ~weekdays[i].ok
    THEN Err("InvalidWeekday")
    ELSE Ok(Simple({weekdays[i].val : i \in DOMAIN weekdays}))

\* the branch on tokens[0], which is out of bounds when no token is left
ByDayOfTokens(tokens) ==
    IF tokens = << >> THEN Panic
    ELSE IF Len(tokens[1]) > 2 THEN DeltaFromStr(tokens[1])
    ELSE SimpleOf([i \in DOMAIN tokens |-> ToChronoWeekday(tokens[i])])

\* ByDay::from_str
ByDayFromStr(s) == ByDayOfTokens(SelectSeq(Split(s, ","), NonEmpty))

----------------------------------------------------------------------------
(* string_to_date_or_datetime *)

AllDigits(s) == \A i \in DOMAIN s : IsDigit(s[i])

\* the number written by digits
RECURSIVE Number(_)
Number(s) == IF s = << >> THEN 0 ELSE Number(SubSeq(s, 1, Len(s) - 1)) * 10 + DigitVal(s[Len(s)])

\* %Y%m%d over eight digits: the day number, when the date exists
YmdOf(s) ==
    IF AllDigits(s) /\ ValidYmd(Number(SubSeq(s, 1, 4)), Number(SubSeq(s, 5, 6)),
                                Number(SubSeq(s, 7, 8)))
    THEN Ok(DaysFromCivil(Number(SubSeq(s, 1, 4)), Number(SubSeq(s, 5, 6)),
                          Number(SubSeq(s, 7, 8))))
    ELSE Err("ParseDateOrDatetTimeError")

\* %H%M%S over six digits: the second of the day
HmsOf(s) ==
    IF AllDigits(s) /\ Number(SubSeq(s, 1, 2)) < 24 /\ Number(SubSeq(s, 3, 4)) < 60
       /\ Number(SubSeq(s, 5, 6)) < 60
    THEN Ok(HmsSecs(Number(SubSeq(s, 1, 2)), Number(SubSeq(s, 3, 4)), Number(SubSeq(s, 5, 6))))
    ELSE Err("ParseDateOrDatetTimeError")

\* a local date and time taken to UTC with the offset of the process
DateTimeOf(date, time, offset) ==
    IF ~date.ok THEN date
    ELSE IF ~time.ok THEN time
    ELSE Ok(AddSecs(DateTime(date.val, time.val), -offset))

\* string_to_datetime: with a trailing Z the text is UTC, without it local time
\* at the offset (seconds east) of Local::now()
StringToDateTime(s, offset) ==
    IF s # << >> /\ s[Len(s)] = "Z"
    THEN (IF Len(s) = 16 /\ s[9] = "T"
          THEN DateTimeOf(YmdOf(SubSeq(s, 1, 8)), HmsOf(SubSeq(s, 10, 15)), 0)
          ELSE Err("ParseDateOrDatetTimeError"))
    ELSE IF Len(s) = 15 /\ s[9] = "T"
    THEN DateTimeOf(YmdOf(SubSeq(s, 1, 8)), HmsOf(SubSeq(s, 10, 15)), offset)
    ELSE Err("ParseDateOrDatetTimeError")

WholeDayOf(date) == IF date.ok THEN Ok(WholeDay(date.val, 0)) ELSE date

\* string_to_date_or_datetime: eight characters are a date
StringToDateOrDateTime(s, offset) ==
    IF Len(s) = 8 THEN WholeDayOf(YmdOf(s)) ELSE StringToDateTime(s, offset)

----------------------------------------------------------------------------
(* RRule::from_str *)

Text(key) ==
    CASE key = "FREQ=" -> <<"F", "R", "E", "Q", "=">>
      [] key = "INTERVAL=" -> <<"I", "N", "T", "E", "R", "V", "A", "L", "=">>
      [] key = "UNTIL=" -> <<"U", "N", "T", "I", "L", "=">>
      [] key = "COUNT=" -> <<"C", "O", "U", "N", "T", "=">>
      [] key = "BYMONTH=" -> <<"B", "Y", "M", "O", "N", "T", "H", "=">>
      [] key = "BYMONTHDAY=" -> <<"B", "Y", "M", "O", "N", "T", "H", "D", "A", "Y", "=">>
      [] key = "BYDAY=" -> <<"B", "Y", "D", "A", "Y", "=">>
      [] key = "YEARLY" -> <<"Y", "E", "A", "R", "L", "Y">>
      [] key = "MONTHLY" -> <<"M", "O", "N", "T", "H", "L", "Y">>
      [] key = "WEEKLY" -> <<"W", "E", "E", "K", "L", "Y">>
      [] key = "DAILY" -> <<"D", "A", "I", "L", "Y">>

Frequencies == {"YEARLY", "MONTHLY", "WEEKLY", "DAILY"}

\* Frequency::from_str
FrequencyFromStr(s) ==
    IF \E f \in Frequencies : Text(f) = s
    THEN Ok(CHOOSE f \in Frequencies : Text(f) = s)
    ELSE Err("FrequencyParseError")

\* tokens.iter().find(|item| item.starts_with(key)).map(|item| &item[key.len()..])
FindValue(tokens, key) ==
    IF \E i \in DOMAIN tokens : StartsWith(tokens[i], Text(key))
    THEN Some(After(tokens[CHOOSE i \in DOMAIN tokens :
                              /\ StartsWith(tokens[i], Text(key))
                              /\ \A j \in 1..(i - 1) : ~StartsWith(tokens[j], Text(key))],
                    Text(key)))
    ELSE None

\* .map(parse).transpose(): Ok(None) for no value, else the parse as an Option
Transposed(value, parsed) ==
    IF ~IsSome(value) THEN Ok(None)
    ELSE IF parsed.ok THEN Ok(Some(parsed.val))
    ELSE parsed

OptionalUnsigned(value, most) ==
    Transposed(value, IF IsSome(value) THEN ParseUnsigned(Unwrap(value), most) ELSE Panic)

OptionalMoment(value, offset) ==
    Transposed(value, IF IsSome(value) THEN StringToDateOrDateTime(Unwrap(value), offset)
                      ELSE Panic)

\* the error of ByDay::from_str is wrapped into ByDayParserError; its panic is not
ByDayWrapped(parsed) ==
    IF parsed.ok \/ IsPanic(parsed) THEN parsed ELSE Err("ByDayParserError")

OptionalByDay(value) ==
    IF ~IsSome(value) THEN Ok(None)
    ELSE Transposed(value, ByDayWrapped(ByDayFromStr(Unwrap(value))))

\* the rule parsed: the shape with its options, and the month and month_day
\* of the shapes that have them
Parsed(shape, day, month, month_day, until, interval, count) ==
    Ok([rule |-> RRule(shape, day, until, interval, count),
        month |-> month, month_day |-> month_day])

\* the match on frequency with a WEEKLY arm that does not look at BYDAY
RRuleOfKeysWeeklyPlain(frequency, until, interval, count, by_month, by_month_day, by_day) ==
    CASE frequency = "YEARLY" ->
             IF IsSome(by_month)
             THEN (IF IsSome(by_month_day)
                   THEN Parsed("YearlyByMonthByMonthDay", NoDay, by_month, by_month_day,
                               until, interval, count)
                   ELSE IF IsSome(by_day)
                   THEN Parsed("YearlyByMonthByDay", Unwrap(by_day), by_month, None,
                               until, interval, count)
                   ELSE Err("MissingrNextTokenAfterByMonth"))
             ELSE Parsed("Yearly", NoDay, None, None, until, interval, count)
      [] frequency = "MONTHLY" ->
             IF IsSome(by_month_day)
             THEN Parsed("MonthlyByMonthDay", NoDay, None, by_month_day, until, interval, count)
             ELSE IF IsSome(by_day)
             THEN Parsed("MonthlyByDay", Unwrap(by_day), None, None, until, interval, count)
             ELSE Err("MissingByDayOrByMonthDayError")
      [] frequency = "WEEKLY" -> Parsed("Weekly", NoDay, None, None, until, interval, count)
      [] OTHER -> Parsed("Daily", NoDay, None, None, until, interval, count)

\* the match on frequency
RRuleOfKeys(frequency, until, interval, count, by_month, by_month_day, by_day) ==
    CASE frequency = "YEARLY" ->
             IF IsSome(by_month)
             THEN (IF IsSome(by_month_day)
                   THEN Parsed("YearlyByMonthByMonthDay", NoDay, by_month, by_month_day,
                               until, interval, count)
                   ELSE IF IsSome(by_day)
                   THEN Parsed("YearlyByMonthByDay", Unwrap(by_day), by_month, None,
                               until, interval, count)
                   ELSE Err("MissingrNextTokenAfterByMonth"))
             ELSE Parsed("Yearly", NoDay, None, None, until, interval, count)
      [] frequency = "MONTHLY" ->
             IF IsSome(by_month_day)
             THEN Parsed("MonthlyByMonthDay", NoDay, None, by_month_day, until, interval, count)
             ELSE IF IsSome(by_day)
             THEN Parsed("MonthlyByDay", Unwrap(by_day), None, None, until, interval, count)
             ELSE Err("MissingByDayOrByMonthDayError")
      [] frequency = "WEEKLY" ->
             IF IsSome(by_day)
             THEN Parsed("WeeklyByDay", Unwrap(by_day), None, None, until, interval, count)
             ELSE Parsed("Weekly", NoDay, None, None, until, interval, count)
      [] OTHER -> Parsed("Daily", NoDay, None, None, until, interval, count)

\* the keys in the order they are read, each ? returning the first failure
RRuleOfParsed(frequency, interval, until, count, by_month, by_month_day, by_day) ==
    IF ~frequency.ok THEN frequency
    ELSE IF ~interval.ok THEN interval
    ELSE IF ~until.ok THEN until
    ELSE IF ~count.ok THEN count
    ELSE IF ~by_month.ok THEN by_month
    ELSE IF ~by_month_day.ok THEN by_month_day
    ELSE IF ~by_day.ok THEN by_day
    ELSE RRuleOfKeys(frequency.val, until.val, interval.val, count.val, by_month.val,
                     by_month_day.val, by_day.val)

RRuleOfTokens(freq, tokens, offset) ==
    IF ~StartsWith(freq, Text("FREQ=")) THEN Err("MissingFrequencyToken")
    ELSE RRuleOfParsed(FrequencyFromStr(After(freq, Text("FREQ="))),
                       OptionalUnsigned(FindValue(tokens, "INTERVAL="), U32Max),
                       OptionalMoment(FindValue(tokens, "UNTIL="), offset),
                       OptionalUnsigned(FindValue(tokens, "COUNT="), U32Max),
                       OptionalUnsigned(FindValue(tokens, "BYMONTH="), U8Max),
                       OptionalUnsigned(FindValue(tokens, "BYMONTHDAY="), U8Max),
                       OptionalByDay(FindValue(tokens, "BYDAY=")))

Tail1(seq) == SubSeq(seq, 2, Len(seq))

\* RRule::from_str, in a process whose local time is offset seconds east of UTC
RRuleFromStr(s, offset) == RRuleOfTokens(Split(s, ";")[1], Tail1(Split(s, ";")), offset)

----------------------------------------------------------------------------
(* The state: the events, the iterators created over them with the values  *)
(* each has returned so far, and one call of next_occurrence_since.        *)

VARIABLES
    events,   \* the VEvents, by identity
    iters,    \* the VEventIterators: the event borrowed, last_occurrence, count
    outs,     \* per iterator, the Options its calls of next have returned
    status,   \* per iterator, "ok", or "panic" / "hang" once a call did not return
    since,    \* the call of next_occurrence_since in progress, if any
    call      \* the call of a function of the library made, if any: op, args, val

vars == <<events, iters, outs, status, since, call>>

MaxCount == 3

MaxInterval == 2

----------------------------------------------------------------------------
(* Inputs *)

D(y, m, d) == DaysFromCivil(y, m, d)

\* Monday 2022-02-07, a 31st, a 29 February, a day in November
StartDays == {D(2022, 2, 7), D(2022, 1, 31), D(2024, 2, 29), D(2022, 11, 30)}

MorningSecs == HmsSecs(9, 0, 0)

OtherSecs == HmsSecs(10, 0, 0)

Starts == {WholeDay(d, 0) : d \in StartDays} \cup {DateTime(d, MorningSecs) : d \in StartDays}

\* dt_end - dt_start: a day for a whole-day event, an hour for a timed one
Durations(start) == IF start.tag = "WholeDay" THEN {SecsPerDay} ELSE {HmsSecs(1, 0, 0)}

ByDays == {Simple({"Mon", "Wed"}), Simple({"Sun"}), Delta(1, "Sun"), Delta(-1, "Sun"),
           Delta(0, "Mon")}

ShapeDays == {<<sh, NoDay>> : sh \in Shapes \ ByDayShapes}
             \cup {<<sh, bd>> : sh \in ByDayShapes, bd \in ByDays}

Intervals == {None} \cup {Some(n) : n \in 0..MaxInterval}

Counts == {Some(n) : n \in 0..MaxCount}

\* UNTIL values around a start: a day before it, and days later; whole days
\* and one value with the time of day of the start
Untils(start) ==
    {Some(WholeDay(start.day + k, 0)) : k \in {-1, 2, 45, 400}}
    \cup {Some(DateTime(start.day + 7, start.secs))}

\* the (until, count) pairs
Limits(start) ==
    {<<None, None>>} \cup {<<None, c>> : c \in Counts}
    \cup {<<u, None>> : u \in Untils(start)}
    \cup {<<Some(WholeDay(start.day + 45, 0)), Some(MaxCount)>>}

RRules(start) ==
    {RRule(sd[1], sd[2], l[1], i, l[2]) :
        sd \in ShapeDays, l \in Limits(start), i \in Intervals}

\* exclusion moments k days after a start, at the time of day of the start or
\* at another time of that day
SameTime(start, k) == DateTime(start.day + k, start.secs)

OtherTime(start, k) == DateTime(start.day + k, OtherSecs)

ExdateSets(start) ==
    { {}, {SameTime(start, 0)}, {OtherTime(start, 0)}, {SameTime(start, 1)},
      {OtherTime(start, 1)}, {SameTime(start, 1), SameTime(start, 2)},
      {SameTime(start, 2), SameTime(start, 7)}, {WholeDay(start.day + 28, 0)},
      {SameTime(start, 365)} }

RRuleOptions(start) == {None} \cup {Some(rr) : rr \in RRules(start)}

\* no function of the library has been called
NoCall == [op |-> "none", args |-> << >>, val |-> None]

\* no call of next_occurrence_since has been made
NoSince == [pc |-> "idle", event |-> 0, dt |-> None, ret |-> None]

----------------------------------------------------------------------------
(* One iterator over one event *)

Init ==
    /\ \E s \in Starts : \E d \in Durations(s) :
         \E r \in RRuleOptions(s), x \in ExdateSets(s) :
            events = <<VEvent(s, AddSecs(s, d), r, x)>>
    /\ iters = <<NewIterator(1)>>
    /\ outs = << << >> >>
    /\ status = <<"ok">>
    /\ since = NoSince
    /\ call = NoCall

\* a call that aborted or hangs leaves nothing else of the program running
Running == \A i \in DOMAIN status : status[i] = "ok"

\* a store that keeps count in one place for all the iterators over an event
PullUpdateShared(its, i, it) ==
    [j \in DOMAIN its |->
        IF j = i THEN it
        ELSE IF its[j].event = it.event THEN [its[j] EXCEPT !.count = it.count]
        ELSE its[j]]

\* next takes &mut self: the iterator called is the only one written
PullUpdate(its, i, it) == [its EXCEPT ![i] = it]

Pulled(i, r) ==
    /\ status' = [status EXCEPT ![i] = r.status]
    /\ iters' = PullUpdate(iters, i, r.it)
    /\ outs' = IF r.status = "ok" THEN [outs EXCEPT ![i] = Append(@, r.res)] ELSE outs

\* one call of next on iterator i
Pull(i) ==
    /\ Running
    /\ Len(outs[i]) < MaxPulls
    /\ Pulled(i, IterNext(iters[i], events[iters[i].event]))
    /\ UNCHANGED <<events, since, call>>

Next == \E i \in DOMAIN iters : Pull(i)

Spec == Init /\ [][Next]_vars

----------------------------------------------------------------------------
(* Three iterators over two events, two of them over the same event *)

TwoStarts == {WholeDay(D(2022, 2, 7), 0), DateTime(D(2022, 1, 31), MorningSecs)}

TwoRRules(start) ==
    {RRule("Daily", NoDay, None, Some(2), Some(MaxCount)),
     RRule("Daily", NoDay, None, Some(0), None),
     RRule("Weekly", NoDay, Some(WholeDay(start.day + 15, 0)), None, None),
     RRule("WeeklyByDay", Simple({"Mon", "Wed"}), None, None, None),
     RRule("MonthlyByDay", Delta(-1, "Sun"), None, None, Some(2)),
     RRule("MonthlyByMonthDay", NoDay, None, Some(2), None),
     RRule("Yearly", NoDay, None, None, None),
     RRule("YearlyByMonthByDay", Delta(1, "Sun"), None, None, None)}

TwoExdateSets(start) == { {}, {SameTime(start, 2), SameTime(start, 7)} }

TwoEvents(starts) ==
    UNION {{VEvent(s, AddSecs(s, SecsPerDay), r, x) :
               r \in {None} \cup {Some(rr) : rr \in TwoRRules(s)},
               x \in TwoExdateSets(s)} : s \in starts}

InitTwo ==
    /\ \E a \in TwoEvents(TwoStarts) :
         \E b \in TwoEvents({DateTime(D(2022, 1, 31), MorningSecs)}) : events = <<a, b>>
    /\ iters = <<NewIterator(1), NewIterator(1), NewIterator(2)>>
    /\ outs = << << >>, << >>, << >> >>
    /\ status = <<"ok", "ok", "ok">>
    /\ since = NoSince
    /\ call = NoCall

SpecTwo == InitTwo /\ [][Next]_vars

----------------------------------------------------------------------------
(* Calls of next_occurrence_since on one event *)

\* dt_end - dt_start, also none and a day backwards
SinceDurations == {SecsPerDay, 0, -SecsPerDay}

SinceLimits(start) ==
    {<<None, None>>, <<None, Some(2)>>, <<Some(WholeDay(start.day + 45, 0)), None>>}

SinceRRules(start) ==
    {RRule(sd[1], sd[2], l[1], i, l[2]) :
        sd \in ShapeDays, l \in SinceLimits(start), i \in {None, Some(0), Some(2)}}

SinceRRuleOptions(start) == {None} \cup {Some(rr) : rr \in SinceRRules(start)}

SinceExdateSets(start) == { {}, {SameTime(start, 7)} }

\* query moments around a start, as whole days and with a time of day
SinceQueries(start) ==
    {WholeDay(start.day + k, 0) : k \in {-1, 0, 1, 7, 30, 400}}
    \cup {DateTime(start.day + k, OtherSecs) : k \in {-1, 0, 1, 7, 30, 400}}

InitSince ==
    /\ \E s \in Starts, d \in SinceDurations :
         \E r \in SinceRRuleOptions(s), x \in SinceExdateSets(s) :
            events = <<VEvent(s, AddSecs(s, d), r, x)>>
    /\ iters = << >>
    /\ outs = << >>
    /\ status = << >>
    /\ since = NoSince
    /\ call = NoCall

\* one call events[e].next_occurrence_since(dt), from the call to its return
SinceReturned(e, dt, ret) ==
    since' = [pc |-> IF ret.outcome \in {"Some", "None", "Err"} THEN "done" ELSE "stuck",
              event |-> e, dt |-> Some(dt), ret |-> Some(ret)]

SinceCall(e, dt) ==
    /\ Running
    /\ since.pc = "idle"
    /\ SinceReturned(e, dt, NextOccurrenceSince(e, events[e], dt))
    /\ UNCHANGED <<events, iters, outs, status, call>>

NextSince == \E e \in DOMAIN events : \E dt \in SinceQueries(events[e].dt_start) : SinceCall(e, dt)

SpecSince == InitSince /\ [][NextSince]_vars

----------------------------------------------------------------------------
(* Calls of the functions of the library, one per behaviour *)

InitCalls ==
    /\ events = << >>
    /\ iters = << >>
    /\ outs = << >>
    /\ status = << >>
    /\ since = NoSince
    /\ call = NoCall

\* the days around 2022-02-10 and the times of day of the moments classified
OverlapDays == {D(2022, 2, 9), D(2022, 2, 10), D(2022, 2, 11)}

OverlapSecs == {0, HmsSecs(8, 0, 0), HmsSecs(10, 30, 0)}

\* moments of both variants; a WholeDay off midnight is a WholeDay a Duration
\* of hours was added to
OverlapMoments ==
    {WholeDay(d, t) : d \in OverlapDays, t \in OverlapSecs}
    \cup {DateTime(d, t) : d \in OverlapDays, t \in OverlapSecs}

\* self.intersects(dt_start, dt_end)
CallIntersects ==
    \E self \in OverlapMoments, dt_start \in OverlapMoments, dt_end \in OverlapMoments :
        /\ call.op = "none"
        /\ call' = [op |-> "intersects", args |-> <<self, dt_start, dt_end>>,
                     val |-> Intersects(self, dt_start, dt_end)]
        /\ UNCHANGED <<events, iters, outs, status, since>>

NextOverlap == CallIntersects

SpecOverlap == InitCalls /\ [][NextOverlap]_vars

\* the largest increment given to inc_month
MaxIncrement == 13

\* the largest ordinal, of either sign, given to move_by_delta
MaxOrdinal == 5

\* days of month of the moments stepped
CalendarDays == {1, 15, 28, 29, 30, 31}

\* the dates of 2023 with those days, of every month
CalendarDates ==
    UNION {{D(2023, m, d) : d \in {x \in CalendarDays : ValidYmd(2023, m, x)}} : m \in 1..12}

CalendarMoments ==
    {WholeDay(d, 0) : d \in CalendarDates} \cup {DateTime(d, MorningSecs) : d \in CalendarDates}

\* self.inc_month(increment)
CallIncMonth ==
    \E self \in CalendarMoments, increment \in 0..MaxIncrement :
        /\ call.op = "none"
        /\ call' = [op |-> "inc_month", args |-> <<self, increment>>,
                     val |-> IncMonth(self, increment)]
        /\ UNCHANGED <<events, iters, outs, status, since>>

\* self.inc_year(increment); 2024-02-29 has no date a year later
CallIncYear ==
    \E self \in CalendarMoments \cup {WholeDay(D(2024, 2, 29), 0)}, increment \in 1..2 :
        /\ call.op = "none"
        /\ call' = [op |-> "inc_year", args |-> <<self, increment>>,
                     val |-> IncYear(self, increment)]
        /\ UNCHANGED <<events, iters, outs, status, since>>

\* moments in February 2022, January 2022, December 2022 and February 2024
OrdinalMoments ==
    {WholeDay(D(2022, 2, 5), 0), DateTime(D(2022, 2, 28), MorningSecs),
     WholeDay(D(2022, 1, 31), 0), WholeDay(D(2022, 12, 1), 0),
     DateTime(D(2024, 2, 29), MorningSecs)}

\* self.move_by_delta(&Delta::new(delta, weekday))
CallMoveByDelta ==
    \E self \in OrdinalMoments, delta \in (-MaxOrdinal)..MaxOrdinal, weekday \in Weekdays :
        /\ call.op = "none"
        /\ call' = [op |-> "move_by_delta", args |-> <<self, Delta(delta, weekday)>>,
                     val |-> MoveByDelta(self, Delta(delta, weekday))]
        /\ UNCHANGED <<events, iters, outs, status, since>>

\* self.substitute_time_with(time)
CallSubstituteTimeWith ==
    \E self \in OverlapMoments, time \in OverlapMoments :
        /\ call.op = "none"
        /\ call' = [op |-> "substitute_time_with", args |-> <<self, time>>,
                     val |-> SubstituteTimeWith(self, time)]
        /\ UNCHANGED <<events, iters, outs, status, since>>

\* the selectors of the steps: sets of weekdays, and every ordinal up to
\* MaxOrdinal either way of every weekday
StepByDays ==
    {Simple({"Mon", "Wed"}), Simple({"Sun"}), Simple({"Sat"})}
        \cup {Delta(delta, weekday) : delta \in (-MaxOrdinal)..MaxOrdinal, weekday \in Weekdays}

\* rules of every shape with no COUNT and no UNTIL
StepRRules ==
    {RRule(sh, NoDay, None, i, None) : sh \in Shapes \ ByDayShapes, i \in {None, Some(2)}}
        \cup {RRule(sh, bd, None, None, None) : sh \in ByDayShapes, bd \in StepByDays}

\* one call get_next_occurrence_according_to_rule(last_occurrence, rrule) on an
\* iterator that stands at last_occurrence
CallRuleStep ==
    /\ call.op = "none"
    /\ \E last_occurrence \in OrdinalMoments, rrule \in StepRRules :
        /\ call' = [op |-> "rule_step", args |-> <<last_occurrence, rrule>>,
                    val |-> GetNextOccurrenceAccordingToRule(
                                StoreLast(NewIterator(1), last_occurrence),
                                last_occurrence, rrule)]
        /\ UNCHANGED <<events, iters, outs, status, since>>

\* the derived PartialEq of DateOrDateTime: the same variant holding the same
\* DateTime<Utc>
MomentEq(a, b) == a.tag = b.tag /\ Instant(a) = Instant(b)

\* a.cmp(&b) and a == b
CallCmp ==
    /\ call.op = "none"
    /\ \E a \in OverlapMoments, b \in OverlapMoments :
        /\ call' = [op |-> "cmp", args |-> <<a, b>>,
                    val |-> [ordering |-> MomentCmp(a, b), eq |-> MomentEq(a, b)]]
        /\ UNCHANGED <<events, iters, outs, status, since>>

NextCalendar ==
    \/ CallIncMonth
    \/ CallIncYear
    \/ CallMoveByDelta
    \/ CallSubstituteTimeWith
    \/ CallRuleStep
    \/ CallCmp

SpecCalendar == InitCalls /\ [][NextCalendar]_vars

----------------------------------------------------------------------------
(* Calls of the parsers, one per behaviour *)

\* the texts of the calls, written token by token
Word(w) ==
    CASE w = "HOURLY" -> <<"H", "O", "U", "R", "L", "Y">>
      [] w = "WKST=" -> <<"W", "K", "S", "T", "=">>
      [] w = "MO" -> <<"M", "O">>
      [] w = "TU" -> <<"T", "U">>
      [] w = "FR" -> <<"F", "R">>
      [] w = "SU" -> <<"S", "U">>
      [] w = "XX" -> <<"X", "X">>
      [] w = "U" -> <<"U">>
      [] w = "-1SU" -> <<"-", "1", "S", "U">>
      [] w = "2FR" -> <<"2", "F", "R">>
      [] w = "+3MO" -> <<"+", "3", "M", "O">>
      [] w = "-MO" -> <<"-", "M", "O">>
      [] w = "1XX" -> <<"1", "X", "X">>
      [] w = "xMO" -> <<"x", "M", "O">>
      [] w = "2" -> <<"2">>
      [] w = "3" -> <<"3">>
      [] w = "5" -> <<"5">>
      [] w = "300" -> <<"3", "0", "0">>
      [] w = "20220301" -> <<"2", "0", "2", "2", "0", "3", "0", "1">>
      [] w = "T100000" -> <<"T", "1", "0", "0", "0", "0", "0">>
      [] w = "Z" -> <<"Z">>
      [] w = "" -> << >>

\* the pieces joined with the separator between them
RECURSIVE Join(_, _)
Join(pieces, sep) ==
    IF pieces = << >> THEN << >>
    ELSE IF Len(pieces) = 1 THEN pieces[1]
    ELSE pieces[1] \o <<sep>> \o Join(Tail1(pieces), sep)

MaxTokens == 3

MaxKeys == 2

UpTo(tokens, n) == UNION {[1..k -> tokens] : k \in 0..n}

ByDayTokens == {Word(w) : w \in {"", "MO", "TU", "FR", "-1SU", "2FR", "XX", "1XX", "xMO"}}

ByDayFields == {Join(tokens, ",") : tokens \in UpTo(ByDayTokens, MaxTokens)}

DeltaTexts ==
    {Word(w) : w \in {"", "U", "SU", "-1SU", "2FR", "+3MO", "-MO", "1XX", "xMO"}}

FreqTokens ==
    {Text("FREQ=") \o Text(f) : f \in Frequencies}
        \cup {Text("FREQ=") \o Word("HOURLY"), Text("INTERVAL=") \o Word("2"), Word("")}

KeyTokens ==
    {Text("BYMONTH=") \o Word("2"), Text("BYMONTH=") \o Word("300"),
     Text("BYMONTHDAY=") \o Word("5"),
     Text("BYDAY=") \o Join(<<Word("MO"), Word("TU"), Word("FR")>>, ","),
     Text("BYDAY=") \o Word("-1SU"), Text("BYDAY=") \o Word("XX"), Text("BYDAY="),
     Text("INTERVAL=") \o Word("2"), Text("COUNT=") \o Word("3"),
     Text("UNTIL=") \o Word("20220301"),
     Text("UNTIL=") \o Word("20220301") \o Word("T100000"),
     Text("UNTIL=") \o Word("20220301") \o Word("T100000") \o Word("Z"),
     Word("WKST=") \o Word("MO")}

RRuleTexts ==
    {Join(<<freq>> \o tokens, ";") : freq \in FreqTokens, tokens \in UpTo(KeyTokens, MaxKeys)}

\* the offsets of local time, in seconds east of UTC
LocalOffsets == {0, 3600}

CallByDayFromStr ==
    /\ call.op = "none"
    /\ \E s \in ByDayFields :
        /\ call' = [op |-> "by_day_from_str", args |-> <<s>>, val |-> ByDayFromStr(s)]
        /\ UNCHANGED <<events, iters, outs, status, since>>

CallDeltaFromStr ==
    /\ call.op = "none"
    /\ \E s \in DeltaTexts :
        /\ call' = [op |-> "delta_from_str", args |-> <<s>>, val |-> DeltaFromStr(s)]
        /\ UNCHANGED <<events, iters, outs, status, since>>

CallRRuleFromStr ==
    /\ call.op = "none"
    /\ \E s \in RRuleTexts, offset \in LocalOffsets :
        /\ call' = [op |-> "rrule_from_str", args |-> <<s, offset>>,
                    val |-> RRuleFromStr(s, offset)]
        /\ UNCHANGED <<events, iters, outs, status, since>>

NextParse == CallByDayFromStr \/ CallDeltaFromStr \/ CallRRuleFromStr

SpecParse == InitCalls /\ [][NextParse]_vars

----------------------------------------------------------------------------
(* Vocabulary of the properties *)

EventOf(i) == events[iters[i].event]

HasRule(i) == IsSome(EventOf(i).rrule)

RuleOf(i) == Unwrap(EventOf(i).rrule)

\* the k-th call of next on iterator i returned an interval
Yields(i, k) == IsSome(outs[i][k])

\* the start of the interval the k-th call returned
StartAt(i, k) == Unwrap(outs[i][k]).start

Last(seq) == seq[Len(seq)]

\* exclusion as the specification has it: the calendar dates are equal
DateExcluded(ev, m) == \E exdate \in ev.exdates : exdate.day = m.day

\* the interval of the event itself
FirstRange(ev) == Range(ev.dt_start, AddSecs(ev.dt_start, SubMoment(ev.dt_end, ev.dt_start)))

----------------------------------------------------------------------------
(* C1: an iterator whose rule carries COUNT=n, n >= 1, no UNTIL and no     *)
(* exclusions yields exactly n intervals, whatever the rule shape, and     *)
(* every later call returns nothing: each call returns, and the k-th call  *)
(* returns an interval exactly when k <= n.                                *)
C1_CountYieldsExactlyN ==
    \A i \in DOMAIN iters :
        (/\ HasRule(i)
         /\ IsSome(RuleOf(i).count)
         /\ UnwrapOr(RuleOf(i).count, 0) >= 1
         /\ ~IsSome(RuleOf(i).until)
         /\ EventOf(i).exdates = {})
        => /\ status[i] = "ok"
           /\ \A k \in 1..Len(outs[i]) : Yields(i, k) <=> k <= Unwrap(RuleOf(i).count)

(* C2: with COUNT=n, n >= 1, any exclusion list and no UNTIL, no interval  *)
(* whose date is the date of an exclusion is yielded, and the skipped      *)
(* occurrences are not counted: still exactly the first n calls yield.     *)
C2_ExcludedSkippedNotCounted ==
    \A i \in DOMAIN iters :
        (/\ HasRule(i)
         /\ IsSome(RuleOf(i).count)
         /\ UnwrapOr(RuleOf(i).count, 0) >= 1
         /\ ~IsSome(RuleOf(i).until))
        => /\ status[i] = "ok"
           /\ \A k \in 1..Len(outs[i]) :
                /\ Yields(i, k) <=> k <= Unwrap(RuleOf(i).count)
                /\ Yields(i, k) => ~DateExcluded(EventOf(i), StartAt(i, k))

(* C3: a timed occurrence on the day of an exclusion moment is skipped,    *)
(* whatever the time of day of either: no yielded DateTime start shares    *)
(* its calendar day with an exclusion.                                     *)
C3_DateOnlyExclusion ==
    \A i \in DOMAIN iters : \A k \in 1..Len(outs[i]) :
        (Yields(i, k) /\ StartAt(i, k).tag = "DateTime")
        => \A exdate \in EventOf(i).exdates : exdate.day # StartAt(i, k).day

(* C4 as stated: for every event the first call of next yields the         *)
(* event's own start.                                                      *)
C4_FirstPullAlwaysStart ==
    \A i \in DOMAIN iters :
        Len(outs[i]) >= 1 => outs[i][1] = Some(FirstRange(EventOf(i)))

(* C4 amended: a fresh iterator is Unstarted (no last occurrence, count    *)
(* 0); for an event whose start is on the date of no exclusion the first   *)
(* call returns [start, start + (end - start)) without stepping and leaves *)
(* the iterator with last_occurrence = start and count = 1.                *)
C4_FirstPullEmitsStart ==
    \A i \in DOMAIN iters :
        /\ (Len(outs[i]) = 0 /\ status[i] = "ok")
           => iters[i].last_occurrence = None /\ iters[i].count = 0
        /\ ~DateExcluded(EventOf(i), EventOf(i).dt_start)
           => /\ Len(outs[i]) = 0 => status[i] = "ok"
              /\ Len(outs[i]) >= 1 => outs[i][1] = Some(FirstRange(EventOf(i)))
              /\ Len(outs[i]) = 1
                 => /\ iters[i].count = 1
                    /\ iters[i].last_occurrence = Some(EventOf(i).dt_start)

\* a first call made on an event that has exclusions, none on the start's date
C4_Witness ==
    /\ Len(outs[1]) = 1
    /\ Yields(1, 1)
    /\ EventOf(1).exdates # {}
    /\ ~DateExcluded(EventOf(1), EventOf(1).dt_start)
    /\ HasRule(1)

(* C5: once a call of next has returned nothing, every later call on that  *)
(* iterator returns, and returns nothing.                                  *)
C5_ExhaustedIsTerminal ==
    [][\A i \in DOMAIN iters :
          (Len(outs[i]) > 0 /\ Last(outs[i]) = None)
          => /\ status'[i] = "ok"
             /\ outs'[i] # outs[i] => Last(outs'[i]) = None]_vars

\* two calls in a row returned nothing, the rule has INTERVAL=2 and an UNTIL,
\* and the cursor is past the last interval yielded: the first sub-step was
\* kept and the second one was the expired one
C5_Witness ==
    /\ Len(outs[1]) >= 4
    /\ outs[1][Len(outs[1])] = None
    /\ outs[1][Len(outs[1]) - 1] = None
    /\ Yields(1, Len(outs[1]) - 2)
    /\ HasRule(1)
    /\ RuleOf(1).interval = Some(2)
    /\ IsSome(RuleOf(1).until)
    /\ iters[1].last_occurrence # Some(StartAt(1, Len(outs[1]) - 2))

(* C7: no interval yielded after the first one starts strictly after       *)
(* UNTIL (both taken as instants, a whole-day UNTIL as its midnight).      *)
C7_NothingAfterUntil ==
    \A i \in DOMAIN iters : \A k \in 2..Len(outs[i]) :
        (Yields(i, k) /\ HasRule(i) /\ IsSome(UnwrapOr(EventOf(i).rrule, [until |-> None]).until))
        => MomentCmp(StartAt(i, k), Unwrap(RuleOf(i).until)) # 1

----------------------------------------------------------------------------
(* An iterator called alone *)

\* an iterator over event e with the Options it has returned, before any call
SoloStart(e) == [status |-> "ok", it |-> NewIterator(e), outs |-> << >>]

SoloCalled(s, r) ==
    [status |-> r.status, it |-> r.it,
     outs |-> IF r.status = "ok" THEN Append(s.outs, r.res) ELSE s.outs]

SoloStep(s) == IF s.status # "ok" THEN s ELSE SoloCalled(s, IterNext(s.it, events[s.it.event]))

\* a fresh iterator over event e after n calls of next and no other call
RECURSIVE SoloRun(_, _)
SoloRun(e, n) == IF n = 0 THEN SoloStart(e) ELSE SoloStep(SoloRun(e, n - 1))

\* the classifier applied to an interval
Classify(dt, range) == Intersects(dt, range.start, range.end)

SinceRet == Unwrap(since.ret)

SinceDt == Unwrap(since.dt)

(* C6: a call next_occurrence_since(q) that returns has pulled, in         *)
(* iteration order, the intervals of a fresh iterator; every interval      *)
(* before the last pulled classifies against q as FinishesPast; it returns *)
(* Some exactly with the last pulled interval and its classification,      *)
(* which is not FinishesPast; it returns None only when every pulled       *)
(* interval was FinishesPast and the iterator then returned nothing; it    *)
(* returns the error exactly when the classifier fails on the last pulled  *)
(* interval.                                                               *)
C6_SinceReturnsFirstNotPast ==
    since.pc = "done" =>
        /\ SinceRet.pulled = [k \in 1..Len(SinceRet.pulled) |->
                                 Unwrap(SoloRun(since.event, Len(SinceRet.pulled)).outs[k])]
        /\ \A k \in 1..(Len(SinceRet.pulled) - 1) :
               Classify(SinceDt, SinceRet.pulled[k]) = "FinishesPast"
        /\ SinceRet.outcome = "Some"
           => /\ Len(SinceRet.pulled) >= 1
              /\ SinceRet.occurrence = Some(Last(SinceRet.pulled))
              /\ SinceRet.event_overlap = Some(Classify(SinceDt, Last(SinceRet.pulled)))
              /\ Classify(SinceDt, Last(SinceRet.pulled)) \in EventOverlaps \ {"FinishesPast"}
        /\ SinceRet.outcome = "None"
           => /\ \A k \in 1..Len(SinceRet.pulled) :
                    Classify(SinceDt, SinceRet.pulled[k]) = "FinishesPast"
              /\ SoloRun(since.event, Len(SinceRet.pulled) + 1).status = "ok"
              /\ Last(SoloRun(since.event, Len(SinceRet.pulled) + 1).outs) = None
        /\ SinceRet.outcome = "Err"
           <=> (Len(SinceRet.pulled) >= 1 /\ Classify(SinceDt, Last(SinceRet.pulled)) = "Err")

\* a call that carried on from two intervals and returned the third
C6_Witness ==
    /\ since.pc = "done"
    /\ SinceRet.outcome = "Some"
    /\ Len(SinceRet.pulled) = 3
    /\ SinceRet.event_overlap # Some("StartsFuture")

\* a call that carried on from an interval and then got the classifier's error
C6_ErrReached ==
    /\ since.pc = "done"
    /\ SinceRet.outcome = "Err"
    /\ Len(SinceRet.pulled) >= 2

\* a call that returned None after carrying on from every interval
C6_NoneReached ==
    /\ since.pc = "done"
    /\ SinceRet.outcome = "None"
    /\ Len(SinceRet.pulled) >= 2

\* the rules of C8: WeeklyByDay with a set of weekdays, INTERVAL absent or 1,
\* no COUNT, no UNTIL, no exclusions
C8_Case(i) ==
    /\ HasRule(i)
    /\ RuleOf(i).shape = "WeeklyByDay"
    /\ RuleOf(i).day.kind = "Simple"
    /\ RuleOf(i).interval \in {None, Some(1)}
    /\ RuleOf(i).count = None
    /\ RuleOf(i).until = None
    /\ EventOf(i).exdates = {}

(* C8: for WeeklyByDay with the weekday set S and INTERVAL absent or 1     *)
(* (no COUNT, UNTIL or exclusions) the iterator yields the start and then, *)
(* in order, exactly the later dates whose weekday is in S: each call      *)
(* yields, each start after the first is a later day with weekday in S     *)
(* and the same time of day, and no day between two consecutive starts has *)
(* its weekday in S.                                                       *)
C8_WeeklyByWeekdayDates ==
    \A i \in DOMAIN iters :
        C8_Case(i)
        => /\ status[i] = "ok"
           /\ \A k \in 1..Len(outs[i]) : Yields(i, k)
           /\ Len(outs[i]) >= 1 => StartAt(i, 1) = EventOf(i).dt_start
           /\ \A k \in 2..Len(outs[i]) :
                /\ StartAt(i, k).day > StartAt(i, k - 1).day
                /\ StartAt(i, k).tag = StartAt(i, k - 1).tag
                /\ StartAt(i, k).secs = StartAt(i, k - 1).secs
                /\ WeekdayOf(StartAt(i, k).day) \in RuleOf(i).day.weekdays
                /\ \A d \in (StartAt(i, k - 1).day + 1)..(StartAt(i, k).day - 1) :
                       WeekdayOf(d) \notin RuleOf(i).day.weekdays

\* Monday 2022-02-07 with S = {Mon, Wed}: 02-07, 02-09, 02-14, 02-16
C8_Witness ==
    /\ C8_Case(1)
    /\ RuleOf(1).day.weekdays = {"Mon", "Wed"}
    /\ Len(outs[1]) >= 4
    /\ \A k \in 1..4 : Yields(1, k)
    /\ [k \in 1..4 |-> StartAt(1, k).day]
         = <<D(2022, 2, 7), D(2022, 2, 9), D(2022, 2, 14), D(2022, 2, 16)>>

(* C9: stepping a YearlyByMonthByDay rule fails with a reported error and  *)
(* never aborts the process: no call of next on an iterator over such a    *)
(* rule panics.                                                            *)
C9_YearlyByMonthByDayNoAbort ==
    \A i \in DOMAIN iters :
        (HasRule(i) /\ UnwrapOr(EventOf(i).rrule, [shape |-> ""]).shape = "YearlyByMonthByDay")
        => status[i] # "panic"

\* iterator i is where a fresh iterator over its event is after the same calls
SameAsAlone(i, s) ==
    /\ s.outs = outs[i]
    /\ s.status = status[i]
    /\ s.it = iters[i]

(* C10: however the calls of next on several iterators interleave, over    *)
(* the same event or different ones, each iterator has returned what it    *)
(* returns when called alone, and no call changes an event.                *)
C10_IteratorsIndependent ==
    /\ [](\A i \in DOMAIN iters :
            SameAsAlone(i, SoloRun(iters[i].event,
                                   Len(outs[i]) + IF status[i] = "ok" THEN 0 ELSE 1)))
    /\ [][events' = events]_vars

\* the two iterators over the first event stand at different places, both
\* after some calls, and the one over the second event has been called too
C10_Witness ==
    /\ Len(outs[1]) >= 2
    /\ Len(outs[2]) >= 1
    /\ Len(outs[3]) >= 1
    /\ Len(outs[1]) > Len(outs[2])
    /\ IsSome(Last(outs[1]))
    /\ IsSome(Last(outs[2]))
    /\ IsSome(Last(outs[3]))
    /\ HasRule(1)
    /\ IsSome(RuleOf(1).count)

----------------------------------------------------------------------------
(* The overlap classifier *)

\* the table of the six classes over the two three-way comparisons
OverlapTable(cs, ce) ==
    IF cs = 1 THEN "StartsFuture"
    ELSE IF cs = -1
    THEN (IF ce = -1 THEN "FinishesPast"
          ELSE IF ce = 0 THEN "StartsPastEndsSameDay" ELSE "StartsPastEndsFuture")
    ELSE (IF ce = -1 THEN "Err"
          ELSE IF ce = 0 THEN "StartSameDayEndsSameDay" ELSE "StartsSameDayEndsFuture")

\* an endpoint as an instant, a WholeDay as the midnight of its date
EndpointInstant(m) == IF m.tag = "WholeDay" THEN <<m.day, 0>> ELSE Instant(m)

\* the table over the comparisons by calendar date
ByDate(ref, start, end) == OverlapTable(Cmp(start.day, ref.day), Cmp(end.day, ref.day))

\* the table over the comparisons by instant
ByInstant(ref, start, end) ==
    OverlapTable(CmpInstant(EndpointInstant(start), Instant(ref)),
                 CmpInstant(EndpointInstant(end), Instant(ref)))

IsIntersects == call.op = "intersects"

(* C11: the outcome of intersects is the table's entry for the pair of     *)
(* comparisons (start against reference, end against reference), the       *)
(* failure being the entry equal/less; for a WholeDay reference the        *)
(* comparisons are by the calendar dates of the endpoints, whatever their  *)
(* tag (for a DateTime reference either both by date or both by instant).  *)
C11_OverlapTable ==
    IsIntersects =>
        IF call.args[1].tag = "WholeDay"
        THEN call.val = ByDate(call.args[1], call.args[2], call.args[3])
        ELSE call.val \in {ByDate(call.args[1], call.args[2], call.args[3]),
                           ByInstant(call.args[1], call.args[2], call.args[3])}

(* C12 as stated: with a DateTime reference the endpoints are compared as  *)
(* instants (a WholeDay endpoint as its midnight), so a start later on the *)
(* reference's day is greater and an end earlier on that day is less.      *)
C12_TimedByInstant ==
    (IsIntersects /\ call.args[1].tag = "DateTime")
    => call.val = ByInstant(call.args[1], call.args[2], call.args[3])

(* C12 amended: with a DateTime reference the endpoints are compared by    *)
(* calendar date with the reference's date: a start or an end anywhere on  *)
(* the reference's own day compares equal.                                 *)
C12_TimedByDate ==
    (IsIntersects /\ call.args[1].tag = "DateTime")
    => call.val = ByDate(call.args[1], call.args[2], call.args[3])

\* reference 2022-02-10T08:00, start 10:30 that day, end the day after
C12_Witness ==
    /\ IsIntersects
    /\ call.args = <<DateTime(D(2022, 2, 10), HmsSecs(8, 0, 0)),
                     DateTime(D(2022, 2, 10), HmsSecs(10, 30, 0)),
                     DateTime(D(2022, 2, 11), HmsSecs(10, 30, 0))>>
    /\ call.val = "StartsSameDayEndsFuture"

(* C13: for every moment m, of either tag, m.intersects(m, m) is           *)
(* StartSameDayEndsSameDay.                                                *)
C13_SelfOverlap ==
    (IsIntersects /\ call.args[2] = call.args[1] /\ call.args[3] = call.args[1])
    => call.val = "StartSameDayEndsSameDay"

----------------------------------------------------------------------------
(* Calendar arithmetic *)

\* months counted from year 0: the month of a civil date, and back
MonthIndex(c) == c[1] * 12 + (c[2] - 1)

IndexYear(idx) == idx \div 12

IndexMonth(idx) == (idx % 12) + 1

HasDay(idx, d) == ValidYmd(IndexYear(idx), IndexMonth(idx), d)

\* the first month from idx on that has a day d
FirstWithDay(idx, d) == CHOOSE j \in idx..(idx + 12) :
                            HasDay(j, d) /\ \A i \in idx..(j - 1) : ~HasDay(i, d)

\* the date n months after the civil date c: month ((m - 1 + n) mod 12) + 1 of
\* year y + (m - 1 + n) div 12, or the first later month with the day
MonthsLater(c, n) ==
    DaysFromCivil(IndexYear(FirstWithDay(MonthIndex(c) + n, c[3])),
                  IndexMonth(FirstWithDay(MonthIndex(c) + n, c[3])), c[3])

(* C14: inc_month(n) on year y, month m, day d gives month                 *)
(* ((m - 1 + n) mod 12) + 1 of year y + (m - 1 + n) div 12 with day d, or  *)
(* the first later month that has a day d; tag and time of day are kept.   *)
C14_IncMonthFormula ==
    call.op = "inc_month" =>
        /\ call.val.tag = call.args[1].tag
        /\ call.val.secs = call.args[1].secs
        /\ call.val.day = MonthsLater(CivilFromDays(call.args[1].day), call.args[2])

(* C15: for a moment whose day of month is at most 28, inc_month(12) and   *)
(* inc_year(1) give the same calendar date.                                *)
C15_TwelveMonthsIsOneYear ==
    (call.op = "inc_month" /\ call.args[2] = 12 /\ Day(call.args[1]) <= 28)
    => /\ IncYear(call.args[1], 1).ok
       /\ IncYear(call.args[1], 1).val.day = call.val.day

\* the days of the month of m, first to last
MonthDays(m) == MonthStart(m).day..(NextMonthStart(m).day - 1)

\* the days of the month of m with weekday w
WeekdayDays(m, w) == {d \in MonthDays(m) : WeekdayOf(d) = w}

C16_Self == call.args[1]

C16_Ordinal == call.args[2].delta

C16_Weekday == call.args[2].weekday

(* C16: for Delta(k, w) and a moment in a month that has a |k|-th weekday  *)
(* w, move_by_delta returns the k-th day with weekday w counted from the   *)
(* 1st of that month for k > 0, and the |k|-th counted back from the last  *)
(* day of the month for k < 0; in February 2022 the 1st Sunday is the 6th  *)
(* and the last Sunday the 27th.                                           *)
C16_OrdinalWeekday ==
    (/\ call.op = "move_by_delta"
     /\ C16_Ordinal # 0
     /\ Cardinality(WeekdayDays(C16_Self, C16_Weekday)) >= Abs(C16_Ordinal))
    => /\ call.val.ok
       /\ call.val.val.day \in WeekdayDays(C16_Self, C16_Weekday)
       /\ C16_Ordinal > 0
          => Cardinality({d \in WeekdayDays(C16_Self, C16_Weekday) : d <= call.val.val.day})
               = C16_Ordinal
       /\ C16_Ordinal < 0
          => Cardinality({d \in WeekdayDays(C16_Self, C16_Weekday) : d >= call.val.val.day})
               = -C16_Ordinal
       /\ (C16_Self.day = D(2022, 2, 5) /\ call.args[2] = Delta(1, "Sun"))
          => call.val.val.day = D(2022, 2, 6)
       /\ (C16_Self.day = D(2022, 2, 5) /\ call.args[2] = Delta(-1, "Sun"))
          => call.val.val.day = D(2022, 2, 27)

\* the last Sunday of February 2022
C16_Witness ==
    /\ call.op = "move_by_delta"
    /\ call.args = <<WholeDay(D(2022, 2, 5), 0), Delta(-1, "Sun")>>
    /\ call.val = Ok(WholeDay(D(2022, 2, 27), 0))

(* C17: substitute_time_with(other) with a DateTime other has the year,    *)
(* month and day of self and the hour, minute and second of other; with a  *)
(* WholeDay other it is self.                                              *)
C17_SubstituteTimeKeepsDate ==
    call.op = "substitute_time_with" =>
        IF call.args[2].tag = "WholeDay" THEN call.val = call.args[1]
        ELSE /\ call.val.day = call.args[1].day
             /\ Hour(call.val) = Hour(call.args[2])
             /\ Minute(call.val) = Minute(call.args[2])
             /\ Second(call.val) = Second(call.args[2])

----------------------------------------------------------------------------
(* Parsing *)

\* the tokens of the text of a call of RRule::from_str
TextTokens == Split(call.args[1], ";")

\* the key is present: a token after the first starts with it
Present(key) == \E i \in 2..Len(TextTokens) : StartsWith(TextTokens[i], Text(key))

\* the first token is FREQ= and this word
FreqIs(word) == TextTokens[1] = Text("FREQ=") \o Text(word)

\* the key tokens of the inputs whose value does not parse
MalformedKeys == {Text("BYMONTH=") \o Word("300"), Text("BYDAY=") \o Word("XX"), Text("BYDAY=")}

WellFormedKeys == \A i \in 2..Len(TextTokens) : TextTokens[i] \notin MalformedKeys

ShapeIs(shape) == call.val.ok /\ call.val.val.rule.shape = shape

Field == call.args[1]

FieldTokens == Split(Field, ",")

Kept == SelectSeq(FieldTokens, NonEmpty)

IsWeekdayCode(token) == \E c \in WeekdayCodes : c[1] = token

(* C19: ByDay::from_str of a comma-separated field: when the first piece   *)
(* of the field, empty pieces included, is longer than 2 characters the    *)
(* whole field is read as one Delta, its last 2 characters the weekday and *)
(* all before them the signed ordinal; otherwise the empty pieces are      *)
(* dropped, every piece left must be a weekday code and the result is      *)
(* Simple of their weekdays.  "MO,TU,FR" is Simple({Mon, Tue, Fri}),       *)
(* "-1SU" is Delta(-1, Sun) and "2FR" is Delta(2, Fri).                    *)
C19_ByDayParse ==
    call.op = "by_day_from_str" =>
        /\ Len(FieldTokens[1]) > 2 => call.val = DeltaFromStr(Field)
        /\ Len(FieldTokens[1]) <= 2 =>
            IF \A i \in DOMAIN Kept : IsWeekdayCode(Kept[i])
            THEN call.val = Ok(Simple({ToChronoWeekday(Kept[i]).val : i \in DOMAIN Kept}))
            ELSE call.val = Err("InvalidWeekday")
        /\ Field = Join(<<Word("MO"), Word("TU"), Word("FR")>>, ",")
           => call.val = Ok(Simple({"Mon", "Tue", "Fri"}))
        /\ Field = Word("-1SU") => call.val = Ok(Delta(-1, "Sun"))
        /\ Field = Word("2FR") => call.val = Ok(Delta(2, "Fri"))

(* C20: ByDay::from_str and RRule::from_str return, for every text, a      *)
(* value or one of their errors: no text, an empty BYDAY value and one     *)
(* made of commas included, makes them abort.                              *)
C20_ParsersReturn ==
    call.op \in {"by_day_from_str", "rrule_from_str"} => ~IsPanic(call.val)

----------------------------------------------------------------------------
(* The work of one call *)

(* C21: every call of next returns, an interval or nothing, after finitely *)
(* many steps, for every rule (INTERVAL=0 and ordinal weekday selectors    *)
(* included) and every finite exclusion list: no call is left running for  *)
(* ever.                                                                   *)
C21_EveryPullTerminates ==
    \A i \in DOMAIN iters : status[i] # "hang"

----------------------------------------------------------------------------
(* The steps of the rule shapes *)

\* the civil date of the start of the interval the k-th call returned
CivilAt(i, k) == CivilFromDays(StartAt(i, k).day)

\* the rules of C22: MonthlyByMonthDay with INTERVAL=k, k >= 1, on a start
\* whose day exists in every month, and no exclusions
C22_Case(i) ==
    /\ HasRule(i)
    /\ UnwrapOr(EventOf(i).rrule, [shape |-> ""]).shape = "MonthlyByMonthDay"
    /\ UnwrapOr(RuleOf(i).interval, 0) >= 1
    /\ Day(EventOf(i).dt_start) <= 28
    /\ EventOf(i).exdates = {}

(* C22: for MonthlyByMonthDay with INTERVAL=k, k >= 1, each call of next   *)
(* after the first moves one month k times: two consecutive intervals      *)
(* yielded start exactly k calendar months apart, on the same day of the   *)
(* month and at the same time of day.                                      *)
C22_MonthlyIntervalMonthsApart ==
    \A i \in DOMAIN iters :
        C22_Case(i)
        => \A k \in 2..Len(outs[i]) :
               (Yields(i, k) /\ Yields(i, k - 1))
               => /\ MonthIndex(CivilAt(i, k)) - MonthIndex(CivilAt(i, k - 1))
                       = Unwrap(RuleOf(i).interval)
                  /\ CivilAt(i, k)[3] = CivilAt(i, k - 1)[3]
                  /\ StartAt(i, k).secs = StartAt(i, k - 1).secs
                  /\ StartAt(i, k).tag = StartAt(i, k - 1).tag

\* the moment a step was taken from, its rule, and the moment it returned
StepLast == call.args[1]

StepRule == call.args[2]

StepNext == Unwrap(call.val.res)

\* the weekdays a selector names
SelectorWeekdays(by_day) ==
    IF by_day.kind = "Simple" THEN by_day.weekdays ELSE {by_day.weekday}

(* C23: for WeeklyByDay with any selector, a set of weekdays or an ordinal *)
(* and a weekday, every step from a moment last returns a moment strictly  *)
(* later than last whose weekday is one of the selector's.                 *)
C23_WeeklyStepLaterOnWeekday ==
    (call.op = "rule_step" /\ StepRule.shape = "WeeklyByDay")
    => /\ call.val.ok
       /\ IsSome(call.val.res)
       /\ MomentCmp(StepNext, StepLast) = 1
       /\ WeekdayOf(StepNext.day) \in SelectorWeekdays(StepRule.day)

(* C24: for MonthlyByDay with any ordinal, every step from a moment last   *)
(* returns a moment in the calendar month after the month of last,         *)
(* December going to January of the next year, on the selector's weekday;  *)
(* so it is later than last.                                               *)
C24_MonthlyStepInNextMonth ==
    (call.op = "rule_step" /\ StepRule.shape = "MonthlyByDay" /\ StepRule.day.kind = "Delta")
    => /\ call.val.ok
       /\ IsSome(call.val.res)
       /\ MonthIndex(CivilFromDays(StepNext.day)) = MonthIndex(CivilFromDays(StepLast.day)) + 1
       /\ WeekdayOf(StepNext.day) = StepRule.day.weekday
       /\ MomentCmp(StepNext, StepLast) = 1

(* C25: for every ordinal, every weekday and every moment the scan of      *)
(* move_by_delta, when it is entered, ends after at most 31 steps of one   *)
(* day.                                                                    *)
C25_ScanAtMost31Steps ==
    (call.op = "move_by_delta" /\ call.val.ok)
    => MoveByDeltaRun(call.args[1], call.args[2]).val.steps <= 31

----------------------------------------------------------------------------
(* next_occurrence_since: whole-day occurrences and open-ended rules *)

\* the first interval a call of next_occurrence_since pulled
FirstPulled == SinceRet.pulled[1]

(* C26: in next_occurrence_since an occurrence whose start and end are     *)
(* both WholeDay ends with the last second of the day before its end date: *)
(* for a query on the end date of the occurrence, after its start date,    *)
(* the occurrence is FinishesPast and is carried on from, not returned.    *)
C26_WholeDayEndsDayBefore ==
    (/\ since.pc \in {"done", "stuck"}
     /\ Len(SinceRet.pulled) >= 1
     /\ FirstPulled.start.tag = "WholeDay"
     /\ FirstPulled.end.tag = "WholeDay"
     /\ SinceDt.day = FirstPulled.end.day
     /\ SinceDt.day > FirstPulled.start.day)
    => SinceRet.occurrence # Some(FirstPulled)

\* the event of the call of next_occurrence_since, and its rule
SinceEvent == events[since.event]

SinceRule == Unwrap(SinceEvent.rrule)

\* the call was made on an event whose rule has neither COUNT nor UNTIL
C27_Case ==
    /\ since.pc \in {"done", "stuck"}
    /\ IsSome(SinceEvent.rrule)
    /\ UnwrapOr(SinceEvent.rrule, [count |-> Some(0)]).count = None
    /\ UnwrapOr(SinceEvent.rrule, [until |-> Some(0)]).until = None

(* C27: for an event whose rule has neither COUNT nor UNTIL, and every     *)
(* query, next_occurrence_since returns after finitely many calls of next, *)
(* and returns an occurrence that is not FinishesPast: the last it pulled, *)
(* every one before it being FinishesPast.  A call the model follows for   *)
(* MaxPulls occurrences, all of them past, is left open.                   *)
C27_OpenEndedSinceReturns ==
    C27_Case
    => /\ SinceRet.outcome \in {"Some", "open"}
       /\ SinceRet.outcome = "Some"
          => /\ SinceRet.occurrence = Some(Last(SinceRet.pulled))
             /\ Unwrap(SinceRet.event_overlap) \in EventOverlaps \ {"FinishesPast"}
             /\ \A k \in 1..(Len(SinceRet.pulled) - 1) :
                    Classify(SinceDt, SinceRet.pulled[k]) = "FinishesPast"

----------------------------------------------------------------------------
(* Events without a rule, and the count of an iterator *)

(* C28: an iterator over an event without a rule yields at most one        *)
(* interval, [start, start + (end - start)), on its first call, yields it  *)
(* when the start is on the date of no exclusion, and returns nothing on   *)
(* every later call.                                                       *)
C28_NoRuleYieldsOnce ==
    \A i \in DOMAIN iters :
        ~HasRule(i)
        => /\ status[i] = "ok"
           /\ Len(outs[i]) >= 1 => outs[i][1] \in {None, Some(FirstRange(EventOf(i)))}
           /\ (Len(outs[i]) >= 1 /\ ~DateExcluded(EventOf(i), EventOf(i).dt_start))
              => outs[i][1] = Some(FirstRange(EventOf(i)))
           /\ \A k \in 2..Len(outs[i]) : outs[i][k] = None

\* three calls on an event without a rule: the interval, nothing, nothing
C28_Witness ==
    /\ ~HasRule(1)
    /\ Len(outs[1]) = 3
    /\ outs[1][1] = Some(FirstRange(EventOf(1)))
    /\ outs[1][2] = None
    /\ outs[1][3] = None

\* an event without a rule whose start is excluded: nothing from the first call
C28_ExcludedReached ==
    /\ ~HasRule(1)
    /\ Len(outs[1]) = 2
    /\ outs[1][1] = None

\* the number of intervals iterator i has returned
Emitted(i) == Cardinality({k \in 1..Len(outs[i]) : Yields(i, k)})

(* C29: in every state of an iterator count is the number of intervals it  *)
(* has returned so far, and when the rule carries COUNT=c, c = 0 included, *)
(* count is at most c.                                                     *)
C29_CountIsEmittedAndBounded ==
    \A i \in DOMAIN iters :
        status[i] = "ok"
        => /\ iters[i].count = Emitted(i)
           /\ (HasRule(i) /\ IsSome(UnwrapOr(EventOf(i).rrule, [count |-> None]).count))
              => iters[i].count <= Unwrap(RuleOf(i).count)

----------------------------------------------------------------------------
(* Ordering and equality *)

(* C30: the ordering of DateOrDateTime agrees with its equality: for all   *)
(* moments a and b of either variant, a.cmp(&b) is Equal exactly when      *)
(* a == b.                                                                 *)
C30_OrderingAgreesWithEquality ==
    call.op = "cmp" => (call.val.ordering = 0 <=> call.val.eq)

====
